---- MODULE Spec2Model ----
(***************************************************************************)
(* Model of the OMR evaluation dashboard (src/app.py) and of the scoring   *)
(* helper it imports (src/omr_processor.py).  Every browser session runs   *)
(* the batch loop of app.py in its own script thread; the threads share    *)
(* the process-wide numpy generator and the SQLite audit connection.       *)
(***************************************************************************)
EXTENDS Integers, Sequences, FiniteSets, TLC

(***************************************************************************)
(* Bounds of the model.                                                    *)
(***************************************************************************)
NumSessions == 2        \* concurrent browser sessions (script threads)
MaxQueue == 2           \* files queued by one press of "Start Evaluation"
MarkedQuestions == 2    \* questions of a sheet whose bubbles may carry marks

(***************************************************************************)
(* Program constants.                                                      *)
(***************************************************************************)
NumQuestions == 100     \* range(1, 101)
NumSubjects == 5        \* range(5)
SeedModulus == 100      \* (h + w) % 100
ScoreLow == 10          \* randint(10, 20)
ScoreHigh == 20
AmbiguousHigh == 2      \* omr_processor: randint(0, 2)
StubAmbiguousHigh == 3  \* app.py stub:   randint(0, 3)

Sessions == 1..NumSessions
Questions == 1..NumQuestions
Letters == <<"A", "B", "C", "D">>
LetterSet == {Letters[i] : i \in 1..Len(Letters)}
None == "None"

(***************************************************************************)
(* numpy's MT19937.  RandomState(seed) seeds the generator with            *)
(* init_genrand(seed); randint(low, high) draws 32-bit outputs and keeps   *)
(* the first one whose masked value is at most high-1-low.  Every mask     *)
(* the program uses (15, 3, 1) lies inside the low four bits, so the       *)
(* stream is tabulated as the low four bits of the successive 32-bit       *)
(* outputs: MT19937Low4[seed + 1][k] is output k of RandomState(seed),     *)
(* taken & 15.  (Seed 0 starts 2357136044, 2546248239, 3071714933, that    *)
(* is 12, 15, 5.)                                                          *)
(***************************************************************************)
MT19937Low4 ==
  <<
  <<12,15,5,0,3,11,3,7,9,3,5,2,4,7,6,8>>,
  <<5,11,12,8,15,9,11,5,15,0,0,1,12,7,13,12>>,
  <<8,15,13,8,6,11,2,11,8,7,2,1,15,11,5,15>>,
  <<10,8,9,3,8,8,0,5,13,3,10,11,9,9,10,5>>,
  <<10,14,7,5,1,8,7,8,2,9,10,12,7,13,14,7>>,
  <<3,14,15,13,6,6,0,9,8,4,7,14,11,0,14,0>>,
  <<10,9,3,4,10,13,15,10,0,14,9,1,11,13,9,10>>,
  <<15,4,9,6,3,3,7,7,12,9,14,7,8,9,14,10>>,
  <<3,4,1,9,5,10,8,3,8,15,0,13,5,12,1,3>>,
  <<14,12,14,5,6,8,11,6,13,1,6,4,11,8,10,1>>,
  <<9,13,4,15,0,1,11,12,9,13,0,13,1,10,8,9>>,
  <<9,15,0,11,1,7,13,12,1,7,2,8,13,12,0,13>>,
  <<11,11,6,13,1,2,3,3,12,0,6,1,4,5,13,9>>,
  <<2,0,10,0,6,2,4,9,12,10,3,10,4,14,2,14>>,
  <<11,8,12,6,7,9,6,10,12,10,0,13,8,13,10,9>>,
  <<8,5,12,5,7,0,12,11,7,11,5,6,15,13,1,13>>,
  <<9,14,9,5,1,11,4,13,15,4,9,0,0,14,8,10>>,
  <<15,1,15,6,6,9,0,13,6,15,4,7,4,12,7,1>>,
  <<10,3,8,5,14,1,14,2,2,8,8,2,1,5,5,15>>,
  <<13,14,5,2,8,3,4,10,15,2,8,6,2,5,1,10>>,
  <<3,10,15,15,12,10,9,4,11,6,7,2,0,6,8,5>>,
  <<9,15,8,4,0,0,8,3,12,2,15,1,10,8,14,15>>,
  <<5,4,12,0,4,6,6,11,4,8,15,4,13,2,14,12>>,
  <<3,6,8,9,6,8,15,13,12,11,7,10,9,3,6,11>>,
  <<2,3,0,7,1,1,1,4,11,15,4,15,3,2,11,11>>,
  <<4,14,10,15,13,6,15,7,12,2,13,8,12,4,9,13>>,
  <<5,14,6,0,1,6,3,13,10,0,4,2,13,1,7,3>>,
  <<3,8,8,15,8,0,5,8,9,13,1,2,15,15,10,1>>,
  <<1,9,5,6,4,0,3,7,12,0,3,7,12,12,5,8>>,
  <<5,3,12,13,2,8,0,9,1,8,5,3,1,14,14,8>>,
  <<5,5,13,13,4,12,7,2,5,11,1,14,3,9,7,7>>,
  <<2,7,0,14,2,7,10,12,12,13,6,12,10,10,14,6>>,
  <<7,11,5,6,12,14,8,3,12,7,14,9,3,5,10,9>>,
  <<4,7,8,2,2,9,9,3,6,13,3,14,12,10,13,3>>,
  <<1,10,10,9,6,5,4,3,5,11,10,14,13,2,13,9>>,
  <<9,15,12,7,1,12,15,0,9,8,11,11,8,8,9,7>>,
  <<5,2,14,8,1,10,10,12,9,5,7,6,4,0,11,15>>,
  <<15,11,12,11,12,5,6,10,3,3,10,5,15,8,5,7>>,
  <<1,11,5,3,12,4,2,1,7,9,12,0,14,10,1,13>>,
  <<9,9,9,0,4,6,3,11,0,4,11,11,15,13,14,13>>,
  <<6,11,7,5,8,8,2,1,12,7,2,3,15,10,7,3>>,
  <<0,3,12,2,0,1,3,9,7,5,10,13,12,8,3,3>>,
  <<6,3,12,14,10,7,12,4,6,9,2,6,10,10,7,4>>,
  <<4,0,15,1,5,10,0,3,1,11,11,2,14,14,7,0>>,
  <<4,3,1,13,11,3,0,4,3,15,10,8,7,7,6,9>>,
  <<11,14,3,12,0,15,13,5,3,4,9,8,15,1,14,5>>,
  <<13,5,8,4,10,3,2,11,13,12,11,0,11,2,8,0>>,
  <<7,6,7,8,8,3,0,7,11,0,7,7,13,1,7,2>>,
  <<0,3,1,4,11,0,0,6,6,2,12,0,12,13,6,6>>,
  <<10,13,8,5,6,4,2,12,5,5,14,12,1,2,4,12>>,
  <<0,0,11,13,1,14,4,6,5,6,6,13,5,2,15,10>>,
  <<14,9,5,0,9,5,0,5,14,4,9,5,10,14,5,12>>,
  <<5,12,11,13,7,6,12,7,0,5,10,11,11,10,3,3>>,
  <<9,13,5,5,11,13,6,4,15,15,0,8,10,12,9,10>>,
  <<15,5,2,15,7,1,0,8,7,1,9,6,9,7,4,4>>,
  <<13,10,7,8,13,13,13,5,7,5,11,1,6,0,3,14>>,
  <<5,4,15,0,2,11,10,14,9,11,7,6,4,9,10,7>>,
  <<15,6,5,6,15,8,2,8,8,1,7,9,5,8,11,8>>,
  <<3,0,7,9,14,5,3,4,9,1,10,5,0,6,4,4>>,
  <<1,12,13,7,11,15,5,9,0,15,3,0,3,7,13,14>>,
  <<13,1,6,10,15,3,8,9,1,2,1,7,10,13,8,12>>,
  <<3,2,2,0,15,14,2,11,10,1,7,5,13,15,12,3>>,
  <<2,8,1,9,3,11,10,5,1,4,14,13,5,1,13,9>>,
  <<12,4,11,7,2,0,1,0,14,11,2,6,13,12,12,3>>,
  <<4,6,7,6,6,1,4,3,5,0,15,8,10,6,13,8>>,
  <<14,5,15,8,5,7,8,13,6,6,1,8,5,1,15,8>>,
  <<4,12,7,3,10,13,15,10,5,3,10,13,0,7,13,13>>,
  <<3,5,10,5,7,9,9,11,3,6,9,13,3,7,8,5>>,
  <<15,2,7,4,10,12,0,12,8,7,4,15,6,12,12,3>>,
  <<6,11,9,11,10,7,4,1,6,9,8,1,6,0,8,12>>,
  <<14,6,2,8,12,11,0,4,5,5,14,5,4,7,8,0>>,
  <<11,13,11,7,8,8,2,15,1,0,10,6,1,14,14,3>>,
  <<8,3,14,10,5,14,5,15,10,15,7,13,5,13,12,8>>,
  <<6,2,14,10,0,8,3,1,6,10,7,1,4,5,14,7>>,
  <<14,11,9,9,14,4,9,12,10,5,11,15,9,3,3,8>>,
  <<8,0,3,1,8,0,10,6,2,1,0,15,15,7,7,6>>,
  <<1,7,7,0,10,10,1,15,2,13,8,12,7,15,2,12>>,
  <<7,15,4,4,11,5,8,15,0,9,7,5,12,3,0,11>>,
  <<5,6,7,8,9,6,8,13,4,4,3,14,3,12,8,11>>,
  <<7,13,10,3,4,8,2,8,1,7,1,7,10,11,10,15>>,
  <<15,12,6,3,10,2,3,6,7,7,3,15,1,5,2,4>>,
  <<3,1,8,14,11,11,3,1,1,13,10,1,3,9,4,3>>,
  <<3,2,3,11,13,13,6,15,2,14,0,14,10,1,13,12>>,
  <<2,7,8,7,0,0,8,3,12,15,10,4,8,4,0,5>>,
  <<10,1,9,8,5,12,14,13,0,14,1,10,10,4,1,9>>,
  <<10,0,13,4,3,13,4,3,5,15,10,1,8,13,13,3>>,
  <<4,0,12,12,3,8,9,11,9,12,14,9,13,1,10,13>>,
  <<6,13,11,15,11,6,6,3,0,9,12,0,13,14,10,8>>,
  <<8,0,15,1,10,4,5,14,1,0,5,12,10,0,2,1>>,
  <<3,14,4,13,6,11,5,10,8,2,12,1,10,11,7,14>>,
  <<11,13,2,15,3,7,4,10,5,2,10,0,11,3,14,0>>,
  <<2,14,10,2,13,4,13,14,4,5,2,12,10,5,14,12>>,
  <<10,10,3,2,11,6,15,12,10,13,7,10,14,10,1,4>>,
  <<5,11,4,8,15,1,5,0,13,13,4,4,9,3,5,1>>,
  <<11,2,0,5,3,2,6,13,9,8,3,6,0,8,7,0>>,
  <<6,9,3,6,14,5,2,4,7,2,1,0,15,4,7,2>>,
  <<4,10,6,12,4,1,1,2,6,13,11,6,15,9,14,2>>,
  <<10,3,9,3,5,7,12,3,5,4,8,2,15,13,3,4>>,
  <<10,10,4,15,11,9,1,4,7,6,9,2,7,2,9,9>>,
  <<1,3,9,8,9,8,2,4,5,4,1,7,14,3,7,1>>
  >>


(***************************************************************************)
(* The module-level generator behind np.random.randint is seeded from OS   *)
(* entropy when numpy is imported.  One representative stream stands for   *)
(* the state it starts in (that of init_genrand(2025)), tabulated the same *)
(* way.                                                                    *)
(***************************************************************************)
EntropyLow4 ==
  <<14,14,2,14,12,8,3,3,12,0,6,8,5,10,14,1,8,5,7,5,15,4,0,0,5,3,4,9,1,0,7,11,13,0,12,1,
    9,11,13,3,10,9,10,12,4,10,10,15,15,5,5,10,12,15,4,15,9,5,5,4,12,1,7,5,14,4,8,7,6,8,13,8,
    15,2,8,6,15,9,7,5,13,2,9,0,2,13,4,0,11,2,0,1,15,6,6,4,12,12,7,3,6,11,3,11,14,4,11,14,
    0,12,4,9,12,5,9,2,0,0,13,1,6,7,15,7,9,14,12,7,10,12,12,14,3,5,2,0,11,14,8,3,3,14,13,8>>

(***************************************************************************)
(* State.                                                                  *)
(***************************************************************************)
VARIABLES
  HAS_OMR_MODULE,   \* whether "from omr_processor import ..." succeeded
  np_random,        \* the generator behind np.random.randint, one per process
  db,               \* the rows of table results, in insertion order
  omr_outputs,      \* the files written to OUTPUT_DIR: [path, content]
  notices,          \* st.warning / st.error messages shown: [session, file, kind]
  warp_calls,       \* every finished call of find_and_warp_sheet
  eval_calls,       \* every finished call of evaluate_sheet
  sidebar,          \* the sidebar widgets' values (the same in every session)
  pc,               \* per session: where its script thread stands
  total,            \* per session: len(files_to_process)
  idx,              \* per session: the batch loop's idx
  proc,             \* per session: the locals of process_single_image
  results_records   \* per session: the batch loop's results_records

vars == <<HAS_OMR_MODULE, np_random, db, omr_outputs, notices, warp_calls,
          eval_calls, sidebar, pc, total, idx, proc, results_records>>

(***************************************************************************)
(* numpy generators.  A generator is [seed, pos, shared]: the stream it    *)
(* was seeded with, how many 32-bit outputs it has handed out, and whether *)
(* it is the object every thread reaches through np.random (shared) or an  *)
(* object only its creator holds.  A seed outside 0..SeedModulus-1 stands  *)
(* for OS entropy.                                                         *)
(***************************************************************************)
StreamOf(g) ==
  IF g.seed < SeedModulus THEN MT19937Low4[g.seed + 1] ELSE EntropyLow4

\* (a variant: the draws come from the generator of the process)
np_random_generator(seed) == np_random

RandomState(seed) == [seed |-> seed, pos |-> 0, shared |-> FALSE]

genrand_low4(g) == StreamOf(g)[g.pos + 1]

RECURSIVE MaskOf(_, _)
\* The smallest 2^k - 1 that is at least rng (called with m = 0).
MaskOf(rng, m) == IF m >= rng THEN m ELSE MaskOf(rng, 2 * m + 1)

RECURSIVE bounded_masked(_, _, _)
\* Rejection sampling: outputs are masked and dropped while above rng.
bounded_masked(g, rng, mask) ==
  LET v == genrand_low4(g) % (mask + 1)
      g2 == [g EXCEPT !.pos = @ + 1]
  IN  IF v <= rng THEN [val |-> v, g |-> g2] ELSE bounded_masked(g2, rng, mask)

\* g.randint(low, high): low <= value < high, and the generator after the draw.
randint(g, low, high) ==
  LET rng == high - 1 - low
  IN  IF rng = 0 THEN [val |-> low, g |-> g]
      ELSE LET r == bounded_masked(g, rng, MaskOf(rng, 0))
           IN  [val |-> low + r.val, g |-> r.g]

RECURSIVE randints(_, _, _, _)
\* [g.randint(low, high) for _ in range(n)]
randints(g, low, high, n) ==
  IF n = 0 THEN [vals |-> <<>>, g |-> g]
  ELSE LET more(d) == LET rest == randints(d.g, low, high, n - 1)
                      IN  [vals |-> <<d.val>> \o rest.vals, g |-> rest.g]
       IN  CHOOSE r \in {more(d) : d \in {randint(g, low, high)}} : TRUE

RECURSIVE sum_upto(_, _)
\* xs[1] + ... + xs[n]
sum_upto(xs, n) == IF n = 0 THEN 0 ELSE xs[n] + sum_upto(xs, n - 1)

\* (a variant: sum(subject_scores[:-1]))
sum_without_last(xs) == IF xs = <<>> THEN 0 ELSE sum_upto(xs, Len(xs) - 1)

RECURSIVE sum(_)
sum(xs) == IF xs = <<>> THEN 0 ELSE Head(xs) + sum(Tail(xs))

(***************************************************************************)
(* Images.  h, w: the array's shape; chan: the channel order of the        *)
(* pixels; sheet: whether the photograph shows a sheet-like quadrilateral; *)
(* marks: the fill of every bubble of the first MarkedQuestions questions  *)
(* (every other bubble is empty); text: what has been drawn onto it.       *)
(***************************************************************************)
NoImage == [none |-> TRUE]
IsArray(img) == {"h", "w"} \subseteq DOMAIN img

Blank == [o \in LetterSet |-> "empty"]
Single(x) == [o \in LetterSet |-> IF o = x THEN "filled" ELSE "empty"]
Double(x, y) == [o \in LetterSet |-> IF o \in {x, y} THEN "filled" ELSE "empty"]
Faint(x) == [o \in LetterSet |-> IF o = x THEN "band" ELSE "empty"]

Photo(h, w, sheet, first, second) ==
  [h |-> h, w |-> w, chan |-> "RGB", sheet |-> sheet,
   marks |-> [q \in 1..MarkedQuestions |->
                IF q = 1 THEN first ELSE IF q = 2 THEN second ELSE Blank],
   text |-> <<>>]

\* The uploads the sessions choose from: a cleanly marked sheet, a sheet with
\* question 1 marked twice and question 2 marked faintly, and a photograph
\* that shows no sheet.
Uploads ==
  { Photo(1100, 850, TRUE, Single("A"), Single("B")),
    Photo(1200, 920, TRUE, Double("B", "C"), Faint("B")),
    Photo(460, 640, FALSE, Blank, Blank) }

\* A question is unclear when two or more of its bubbles are filled or one
\* of them lies in the ambiguous band.
Unclear(m) ==
  \/ Cardinality({o \in LetterSet : m[o] = "filled"}) >= 2
  \/ \E o \in LetterSet : m[o] = "band"
UnclearQuestions(img) == {q \in DOMAIN img.marks : Unclear(img.marks[q])}

cvtColor(img) ==
  IF IsArray(img) THEN [img EXCEPT !.chan = IF @ = "RGB" THEN "BGR" ELSE "RGB"]
  ELSE img
copy(img) == img
putText(img, text) == [img EXCEPT !.text = Append(@, text)]

(***************************************************************************)
(* omr_processor.py                                                        *)
(***************************************************************************)
get_answer_keys ==
  [set_name \in {"SET-A", "SET-B"} |->
     [i \in Questions |-> Letters[((i - 1) % 4) + 1]]]

\* One call of find_and_warp_sheet: what it returned (img) and the argument
\* array as the call left it (image_bgr).  It returns the array it was given.
find_and_warp_sheet(image_bgr) ==
  [kind |-> "image", img |-> image_bgr, image_bgr |-> image_bgr]

\* (a variant: "vis = warped_bgr", the text is drawn into the argument)
draw_in_place(warped_bgr, text) ==
  [vis |-> putText(warped_bgr, text), warped_bgr |-> putText(warped_bgr, text)]

\* "vis = warped_bgr.copy(); cv2.putText(vis, ...)": the array drawn on, and
\* the argument array after the drawing.
draw_overlay(warped_bgr, text) ==
  [vis |-> putText(copy(warped_bgr), text), warped_bgr |-> warped_bgr]

\* (a variant: an error for a sheet with unclear marks)
evaluate_raises_unclear(warped_bgr, answer_key) ==
  ~IsArray(warped_bgr) \/ UnclearQuestions(warped_bgr) # {}

\* "h, w = warped_bgr.shape[:2]" raises for anything that is not an array;
\* nothing else in evaluate_sheet raises for an array and a dict.
evaluate_raises(warped_bgr, answer_key) == ~IsArray(warped_bgr)

\* answer_key.get(i, "A")
key_get(answer_key, i) == IF i \in DOMAIN answer_key THEN answer_key[i] ELSE "A"

\* No dict: the call has not returned one.
NoResults == [none |-> TRUE]

Raised == [raised |-> TRUE, results |-> NoResults, rng |-> None,
           warped_bgr |-> NoImage, answer_key |-> <<>>]

\* One call of evaluate_sheet: whether it raised, the dict it returned, the
\* generator it drew from as the call left it, and the two arguments as the
\* call left them (answer_key is only read, with get).
evaluate_sheet(warped_bgr, answer_key) ==
  IF evaluate_raises(warped_bgr, answer_key) THEN Raised
  ELSE
    LET rng == RandomState((warped_bgr.h + warped_bgr.w) % SeedModulus)
        \* s: the five draws of subject_scores; a: the draw of ambiguous.
        returned(s, a) ==
          LET total_score == sum(s.vals)
              drawn == draw_overlay(warped_bgr, <<"Simulated Score", total_score>>)
              vis == drawn.vis
          IN  [raised |-> FALSE,
               results |-> [subject_scores |-> s.vals,
                            total_score |-> total_score,
                            ambiguous_questions |-> a.val,
                            visual_result |-> vis,
                            raw_answers |-> [i \in Questions |->
                                               key_get(answer_key, i)]],
               rng |-> a.g,
               warped_bgr |-> drawn.warped_bgr,
               answer_key |-> answer_key]
    IN  CHOOSE r \in UNION
          { {returned(s, a) : a \in {randint(s.g, 0, AmbiguousHigh)}} :
              s \in {randints(rng, ScoreLow, ScoreHigh, NumSubjects)} } : TRUE

(***************************************************************************)
(* app.py, the simulated placeholders defined when the import fails.       *)
(***************************************************************************)
stub_get_answer_keys ==
  [set_name \in {"SET-A", "SET-B"} |->
     IF set_name = "SET-A"
     THEN [i \in Questions |-> Letters[(i % 4) + 1]]
     ELSE [i \in Questions |-> Letters[4 - (i % 4)]]]

stub_find_and_warp_sheet(image_cv) ==
  [kind |-> "image", img |-> image_cv, image_bgr |-> image_cv]

\* The placeholder evaluate_sheet, drawing from the generator g.
stub_evaluate_from(g, warped_cv, answer_key) ==
  IF ~IsArray(warped_cv) THEN Raised
  ELSE
    LET s == randints(g, ScoreLow, ScoreHigh, NumSubjects)
        total_score == sum(s.vals)
        drawn == draw_overlay(warped_cv, <<"Simulated Result Overlay">>)
        vis == drawn.vis
        a == randint(s.g, 0, StubAmbiguousHigh)
    IN  [raised |-> FALSE,
         results |-> [subject_scores |-> s.vals,
                      total_score |-> total_score,
                      ambiguous_questions |-> a.val,
                      visual_result |-> vis,
                      raw_answers |-> [i \in Questions |-> "A"]],
         rng |-> a.g,
         warped_bgr |-> drawn.warped_bgr,
         answer_key |-> answer_key]

\* np.random.randint draws from the generator of the process.
stub_evaluate_sheet(warped_cv, answer_key) ==
  stub_evaluate_from(np_random, warped_cv, answer_key)

(***************************************************************************)
(* app.py, module level.                                                   *)
(***************************************************************************)
ANSWER_KEYS == IF HAS_OMR_MODULE THEN get_answer_keys ELSE stub_get_answer_keys
AVAILABLE_SETS == DOMAIN ANSWER_KEYS

\* The sidebar settings a run may have (the first is the widgets' defaults).
SidebarChoices ==
  { [exam_set_choice |-> "SET-A", flagging_threshold |-> 1,
     low_score_flag_threshold |-> 10, save_rectified |-> TRUE],
    [exam_set_choice |-> "SET-B", flagging_threshold |-> 0,
     low_score_flag_threshold |-> 70, save_rectified |-> FALSE],
    [exam_set_choice |-> "SET-B", flagging_threshold |-> 2,
     low_score_flag_threshold |-> 70, save_rectified |-> TRUE] }

\* files_to_process: the names of the queued files.  The pixels of a file
\* are read when process_single_image converts it.
fname(s, i) == <<s, i>>
files_to_process(s) == [i \in 1..total[s] |-> fname(s, i)]

NoProc == [img_bgr |-> NoImage, warped |-> NoImage, answer_key |-> None,
           results |-> NoResults]

Init ==
  /\ HAS_OMR_MODULE \in BOOLEAN
  /\ np_random = [seed |-> SeedModulus, pos |-> 0, shared |-> TRUE]
  /\ db = <<>>
  /\ omr_outputs = {}
  /\ notices = {}
  /\ warp_calls = {}
  /\ eval_calls = {}
  /\ sidebar \in SidebarChoices
  /\ sidebar.exam_set_choice \in AVAILABLE_SETS
  /\ pc = [s \in Sessions |-> "ready"]
  /\ total = [s \in Sessions |-> 0]
  /\ idx = [s \in Sessions |-> 0]
  /\ proc = [s \in Sessions |-> NoProc]
  /\ results_records = [s \in Sessions |-> <<>>]

(***************************************************************************)
(* "Start Evaluation": the queue is built and the batch loop entered.      *)
(* With nothing queued only a warning is shown.                            *)
(***************************************************************************)
StartEvaluation(s) ==
  /\ pc[s] = "ready"
  /\ \E n \in 0..MaxQueue :
       /\ total' = [total EXCEPT ![s] = n]
       /\ pc' = [pc EXCEPT ![s] = IF n = 0 THEN "empty" ELSE "loop"]
       /\ notices' = IF n = 0
                     THEN notices \cup {[session |-> s, file |-> <<>>,
                                         kind |-> "No files to process"]}
                     ELSE notices
  /\ UNCHANGED <<HAS_OMR_MODULE, np_random, db, omr_outputs, warp_calls,
                 eval_calls, sidebar, idx, proc, results_records>>

(***************************************************************************)
(* process_single_image up to the call of evaluate_sheet: the conversion   *)
(* to BGR and the call of the rectifier, whose outcome `got` is an image,  *)
(* None or an exception.                                                   *)
(***************************************************************************)
\* (a variant: no fallback to the raw image)
warped_or_none(got, img_bgr) == got.img

\* The image process_single_image goes on with.
warped_or_raw(got, img_bgr) ==
  IF got.kind = "image" THEN got.img ELSE copy(img_bgr)

Warp(s, img_bgr, got) ==
  LET f == fname(s, idx[s] + 1)
  IN  /\ warp_calls' = warp_calls \cup
           {[session |-> s, file |-> f, image_bgr |-> img_bgr, got |-> got]}
      /\ notices' = IF got.kind = "image" THEN notices
                    ELSE notices \cup {[session |-> s, file |-> f,
                                        kind |-> "Sheet detection warning"]}
      /\ proc' = [proc EXCEPT ![s] =
                    [img_bgr |-> got.image_bgr,
                     warped |-> warped_or_raw(got, got.image_bgr),
                     answer_key |-> sidebar.exam_set_choice,
                     results |-> NoResults]]
      /\ idx' = [idx EXCEPT ![s] = @ + 1]
      /\ pc' = [pc EXCEPT ![s] = "call"]
      /\ UNCHANGED <<HAS_OMR_MODULE, np_random, db, omr_outputs, eval_calls,
                     sidebar, total, results_records>>

BeginFile(s) ==
  /\ pc[s] = "loop"
  /\ idx[s] < total[s]
  /\ \E pil_img \in Uploads :
       LET img_bgr == cvtColor(pil_img)
       IN  Warp(s, img_bgr,
                IF HAS_OMR_MODULE THEN find_and_warp_sheet(img_bgr)
                ELSE stub_find_and_warp_sheet(img_bgr))

(***************************************************************************)
(* The call of evaluate_sheet in process_single_image, the second call in  *)
(* its except branch, and what the batch loop does when that raises too.   *)
(* `first` and `second` are the outcomes of the two calls.                 *)
(***************************************************************************)
CallRecord(s, n, res) ==
  [session |-> s, file |-> fname(s, idx[s]), attempt |-> n,
   omr_module |-> HAS_OMR_MODULE,
   warped_bgr |-> copy(proc[s].warped), answer_key |-> proc[s].answer_key,
   raised |-> res.raised, results |-> res.results,
   left |-> [warped_bgr |-> res.warped_bgr, answer_key |-> res.answer_key]]

\* (a variant: the exception leaves the batch loop)
failed_stops(s) == "aborted"

\* The batch loop's "except Exception as e: st.error(...)": the error is
\* shown and the loop goes on with progress_bar.progress and the next file.
failed_processing(s) == "loop"

Evaluated(s, first, second) ==
  LET f == fname(s, idx[s])
      got == IF first.raised THEN second ELSE first
  IN  /\ eval_calls' = eval_calls \cup {CallRecord(s, 1, first)} \cup
           (IF first.raised THEN {CallRecord(s, 2, second)} ELSE {})
      /\ notices' = notices \cup
           (IF first.raised
            THEN {[session |-> s, file |-> f,
                   kind |-> "Evaluation routine raised error"]}
            ELSE {}) \cup
           (IF got.raised
            THEN {[session |-> s, file |-> f, kind |-> "Failed processing"]}
            ELSE {})
      /\ IF got.raised
         THEN /\ np_random' = np_random
              /\ proc' = [proc EXCEPT ![s] = NoProc]
              /\ pc' = [pc EXCEPT ![s] = failed_processing(s)]
         ELSE /\ np_random' = IF got.rng.shared THEN got.rng ELSE np_random
              /\ proc' = [proc EXCEPT ![s].results = got.results]
              /\ pc' = [pc EXCEPT ![s] = "evaluated"]
      /\ UNCHANGED <<HAS_OMR_MODULE, db, omr_outputs, warp_calls, sidebar,
                     total, idx, results_records>>

\* omr_processor.evaluate_sheet.
EvaluateSheet(s) ==
  /\ pc[s] = "call"
  /\ HAS_OMR_MODULE
  /\ Evaluated(s,
       evaluate_sheet(copy(proc[s].warped), ANSWER_KEYS[proc[s].answer_key]),
       evaluate_sheet(copy(proc[s].warped), ANSWER_KEYS[proc[s].answer_key]))

\* The placeholder evaluate_sheet of app.py; the draws of one call are taken
\* in one step.
StubEvaluateSheet(s) ==
  /\ pc[s] = "call"
  /\ ~HAS_OMR_MODULE
  /\ Evaluated(s,
       stub_evaluate_sheet(copy(proc[s].warped), ANSWER_KEYS[proc[s].answer_key]),
       stub_evaluate_sheet(copy(proc[s].warped), ANSWER_KEYS[proc[s].answer_key]))

(***************************************************************************)
(* process_single_image after evaluate_sheet: flag, save, log; then the    *)
(* batch loop records the result.                                          *)
(***************************************************************************)
NoFlag == [kind |-> "None", n |-> 0]

\* (a variant: the low-score test comes first)
flag_reason_low_first(results, side) ==
  IF results.total_score <= side.low_score_flag_threshold
  THEN [kind |-> "Low total score", n |-> results.total_score]
  ELSE IF results.ambiguous_questions >= side.flagging_threshold
       THEN [kind |-> "ambiguous marks", n |-> results.ambiguous_questions]
       ELSE NoFlag

\* flag_reason; [kind, n] stands for the f-string that carries the number n.
flag_reason(results, side) ==
  IF results.ambiguous_questions >= side.flagging_threshold
  THEN [kind |-> "ambiguous marks", n |-> results.ambiguous_questions]
  ELSE IF results.total_score <= side.low_score_flag_threshold
       THEN [kind |-> "Low total score", n |-> results.total_score]
       ELSE NoFlag

save_bgr_image(bgr_img, path) == [path |-> path, content |-> cvtColor(bgr_img)]

FinishFile(s) ==
  /\ pc[s] = "evaluated"
  /\ LET p == proc[s]
         f == fname(s, idx[s])
         results == [subject_scores |-> p.results.subject_scores,
                     total_score |-> p.results.total_score,
                     ambiguous_questions |-> p.results.ambiguous_questions,
                     visual_result |-> p.results.visual_result,
                     raw_answers |-> p.results.raw_answers,
                     flagged |-> flag_reason(p.results, sidebar)]
         json_path == <<f, ".json">>
         overlay_path == <<f, "_overlay.png">>
         rectified_path == <<f, "_rectified.png">>
         to_dump == [metadata |-> [source_filename |-> f,
                                   exam_set |-> sidebar.exam_set_choice],
                     results |-> [subject_scores |-> results.subject_scores,
                                  total_score |-> results.total_score,
                                  ambiguous_questions |-> results.ambiguous_questions,
                                  flagged |-> results.flagged,
                                  raw_answers |-> results.raw_answers]]
         images == IF sidebar.save_rectified
                   THEN {save_bgr_image(p.warped, rectified_path),
                         IF results.visual_result # NoImage
                         THEN save_bgr_image(results.visual_result, overlay_path)
                         ELSE save_bgr_image(p.warped, overlay_path)}
                   ELSE {}
         written == omr_outputs \cup {[path |-> json_path, content |-> to_dump]}
                      \cup images
         exists(path) == \E o \in written : o.path = path
         meta == [filename |-> f, source |-> f,
                  exam_set |-> sidebar.exam_set_choice,
                  json_path |-> json_path,
                  overlay_path |-> IF exists(overlay_path) THEN overlay_path ELSE <<>>,
                  rectified_path |-> IF exists(rectified_path) THEN rectified_path
                                     ELSE <<>>]
         row == [filename |-> meta.filename, source |-> meta.source,
                 exam_set |-> meta.exam_set,
                 total_score |-> results.total_score,
                 subj_python |-> results.subject_scores[1],
                 subj_eda |-> results.subject_scores[2],
                 subj_sql |-> results.subject_scores[3],
                 subj_powerbi |-> results.subject_scores[4],
                 subj_statistics |-> results.subject_scores[5],
                 ambiguous_questions |-> results.ambiguous_questions,
                 flagged |-> results.flagged,
                 json_path |-> meta.json_path,
                 overlay_path |-> meta.overlay_path,
                 rectified_path |-> meta.rectified_path]
     IN  /\ omr_outputs' = written
         /\ db' = Append(db, row)
         /\ results_records' = [results_records EXCEPT ![s] =
                                  Append(@, <<results, meta>>)]
         /\ proc' = [proc EXCEPT ![s] = NoProc]
         /\ pc' = [pc EXCEPT ![s] = "loop"]
  /\ UNCHANGED <<HAS_OMR_MODULE, np_random, notices, warp_calls, eval_calls,
                 sidebar, total, idx>>

\* The loop has run through the queue: "Completed evaluation for N files".
BatchDone(s) ==
  /\ pc[s] = "loop"
  /\ idx[s] = total[s]
  /\ pc' = [pc EXCEPT ![s] = "done"]
  /\ UNCHANGED <<HAS_OMR_MODULE, np_random, db, omr_outputs, notices,
                 warp_calls, eval_calls, sidebar, total, idx, proc,
                 results_records>>

Next ==
  \E s \in Sessions :
    \/ StartEvaluation(s)
    \/ BeginFile(s)
    \/ EvaluateSheet(s)
    \/ StubEvaluateSheet(s)
    \/ FinishFile(s)
    \/ BatchDone(s)

Spec == Init /\ [][Next]_vars

(***************************************************************************)
(* The two functions are hooks ("replace with your real functions").  A    *)
(* rectifier that can fail: it returns an image, returns None or raises.   *)
(***************************************************************************)
WarpOutcomes(img_bgr) ==
  { [kind |-> "image", img |-> img_bgr, image_bgr |-> img_bgr],
    [kind |-> "none", img |-> NoImage, image_bgr |-> img_bgr],
    [kind |-> "raise", img |-> NoImage, image_bgr |-> img_bgr] }

\* The upload the sessions choose in the runs with a failing hook.
HookUploads == {Photo(1100, 850, TRUE, Single("A"), Single("B"))}

BeginFileRectifier(s) ==
  /\ pc[s] = "loop"
  /\ idx[s] < total[s]
  /\ \E pil_img \in HookUploads :
       \E got \in WarpOutcomes(cvtColor(pil_img)) :
         Warp(s, cvtColor(pil_img), got)

InitHooks == Init /\ HAS_OMR_MODULE

NextRectifier ==
  \E s \in Sessions :
    \/ StartEvaluation(s)
    \/ BeginFileRectifier(s)
    \/ EvaluateSheet(s)
    \/ FinishFile(s)
    \/ BatchDone(s)

SpecRectifier == InitHooks /\ [][NextRectifier]_vars

(***************************************************************************)
(* An evaluator that can fail: each of the two calls process_single_image  *)
(* makes either raises or returns.                                         *)
(***************************************************************************)
EvaluateSheetFailing(s) ==
  /\ pc[s] = "call"
  /\ HAS_OMR_MODULE
  /\ \E ret \in {evaluate_sheet(copy(proc[s].warped),
                                ANSWER_KEYS[proc[s].answer_key])} :
       \E r1, r2 \in BOOLEAN :
         Evaluated(s, IF r1 THEN Raised ELSE ret, IF r2 THEN Raised ELSE ret)

BeginFileHooked(s) ==
  /\ pc[s] = "loop"
  /\ idx[s] < total[s]
  /\ \E pil_img \in HookUploads :
       Warp(s, cvtColor(pil_img), find_and_warp_sheet(cvtColor(pil_img)))

NextEvaluator ==
  \E s \in Sessions :
    \/ StartEvaluation(s)
    \/ BeginFileHooked(s)
    \/ EvaluateSheetFailing(s)
    \/ FinishFile(s)
    \/ BatchDone(s)

SpecEvaluator == InitHooks /\ [][NextEvaluator]_vars

\* Every session is a script run on a thread of its own, and every call it
\* makes returns or raises: a session that can take a step takes one.
SessionStep(s) ==
  \/ StartEvaluation(s)
  \/ BeginFileHooked(s)
  \/ EvaluateSheetFailing(s)
  \/ FinishFile(s)
  \/ BatchDone(s)

SpecEvaluatorFair ==
  SpecEvaluator /\ \A s \in Sessions : WF_vars(SessionStep(s))

(***************************************************************************)
(* Properties.                                                             *)
(***************************************************************************)
Returned == {c \in eval_calls : ~c.raised}

\* The answer key a recorded call was given.
KeyOf(c) ==
  (IF c.omr_module THEN get_answer_keys ELSE stub_get_answer_keys)[c.answer_key]

FileOver(s, f) ==
  \/ idx[s] > f[2]
  \/ idx[s] = f[2] /\ pc[s] \in {"loop", "done"}

RowsOf(f) == {k \in 1..Len(db) : db[k].filename = f}

\* C1: a question scores one point exactly when the answer recorded for it in
\* raw_answers equals the key's answer, so total_score is the number of
\* questions q with raw_answers[q] = key[q].
C1_TotalCountsMatchingAnswers ==
  \A c \in Returned :
    c.results.total_score =
      Cardinality({q \in Questions : c.results.raw_answers[q] = KeyOf(c)[q]})

\* C2: in every result evaluate_sheet returns, total_score is the sum of the
\* entries of subject_scores and is at most the number of questions.
C2_TotalIsSumAndBounded ==
  \A c \in Returned :
    /\ Len(c.results.subject_scores) = NumSubjects
    /\ c.results.total_score =
         sum_upto(c.results.subject_scores, Len(c.results.subject_scores))
    /\ c.results.total_score <= NumQuestions

C2_Witness ==
  /\ \E c \in Returned : c.omr_module /\ c.results.total_score > 0
  /\ \E k \in 1..Len(db) : db[k].total_score > 0

\* C3: ambiguous_questions is the number of questions with two or more filled
\* bubbles or a bubble in the ambiguous band (so a question whose two bubbles
\* are filled equally is counted).
C3_AmbiguousCountsUnclearQuestions ==
  \A c \in Returned :
    c.results.ambiguous_questions = Cardinality(UnclearQuestions(c.warped_bgr))

\* C4: two calls of omr_processor's evaluate_sheet on the same rectified image
\* and the same answer key, whatever ran in between, return the same
\* subject_scores, total_score, ambiguous_questions and raw_answers.
C4_Idempotent ==
  \A c1, c2 \in Returned :
    (/\ c1.omr_module /\ c2.omr_module
     /\ c1.warped_bgr = c2.warped_bgr
     /\ KeyOf(c1) = KeyOf(c2))
    => /\ c1.results.subject_scores = c2.results.subject_scores
       /\ c1.results.total_score = c2.results.total_score
       /\ c1.results.ambiguous_questions = c2.results.ambiguous_questions
       /\ c1.results.raw_answers = c2.results.raw_answers

C4_Witness ==
  \E c1, c2 \in Returned :
    /\ c1.omr_module /\ c2.omr_module
    /\ c1.session # c2.session
    /\ c1.warped_bgr = c2.warped_bgr
    /\ KeyOf(c1) = KeyOf(c2)
    /\ \E c3 \in Returned : c3.warped_bgr # c1.warped_bgr

\* C5: the rectifier, called on an image that shows no sheet-like
\* quadrilateral, fails with a detection error and returns no image.
C5_NoSheetIsDetectionError ==
  \A w \in warp_calls : ~w.image_bgr.sheet => w.got.kind = "raise"

\* C6: when the rectifier fails for a file (raises or returns None) it is not
\* called again; a copy of the raw image is evaluated in place of the
\* rectified one, exactly one audit row is logged for the file, and the
\* session's run goes on: nothing but the detection warning is shown for the
\* file, and a run that has ended has logged every file of its queue.
C6_RectifierFailureFallsBack ==
  \A w \in warp_calls :
    w.got.kind # "image" =>
      /\ Cardinality({v \in warp_calls : v.session = w.session /\ v.file = w.file}) = 1
      /\ \A c \in eval_calls :
           (c.session = w.session /\ c.file = w.file)
           => c.warped_bgr = w.image_bgr /\ ~c.raised /\ c.attempt = 1
      /\ Cardinality(RowsOf(w.file)) <= 1
      /\ FileOver(w.session, w.file)
           => /\ \E c \in eval_calls : c.session = w.session /\ c.file = w.file
              /\ Cardinality(RowsOf(w.file)) = 1
      /\ \A n \in notices :
           (n.session = w.session /\ n.file = w.file)
           => n.kind = "Sheet detection warning"
      /\ pc[w.session] \in {"loop", "call", "evaluated", "done"}
      /\ pc[w.session] = "done"
           => \A i \in 1..total[w.session] :
                Cardinality(RowsOf(fname(w.session, i))) = 1

C6_Witness ==
  \E w \in warp_calls :
    /\ w.got.kind = "raise"
    /\ w.file[2] = 1
    /\ Cardinality(RowsOf(w.file)) = 1
    /\ idx[w.session] = 2
    /\ \E v \in warp_calls : v.got.kind = "none" /\ Cardinality(RowsOf(v.file)) = 1

\* C7: evaluate_sheet returns a result for every image and answer key that
\* process_single_image passes to it; unclear marks show in the result's
\* ambiguous_questions, never as an error.
C7_EvaluateNeverRaises ==
  /\ \A c \in eval_calls :
       /\ ~c.raised
       /\ c.attempt = 1
       /\ c.results.ambiguous_questions \in Nat
  /\ \A n \in notices :
       n.kind \notin {"Evaluation routine raised error", "Failed processing"}

C7_Witness ==
  \E c \in Returned :
    /\ c.omr_module
    /\ UnclearQuestions(c.warped_bgr) # {}
    /\ RowsOf(c.file) # {}

\* C8: every call returns the result it returns when run alone (in a process
\* where no other call has run), because no call reads or writes state that
\* another call shares.
RunAlone(c) ==
  IF c.omr_module
  THEN evaluate_sheet(c.warped_bgr, KeyOf(c)).results
  ELSE stub_evaluate_from([np_random EXCEPT !.pos = 0], c.warped_bgr, KeyOf(c)).results

C8_SameResultAsAlone ==
  \A c \in Returned : c.results = RunAlone(c)

\* C9: a result is flagged exactly when ambiguous_questions is at least the
\* ambiguity threshold or total_score is at most the low-score threshold; the
\* ambiguous-marks reason wins when both hold; flagged is None when neither
\* holds.
Flagging(flagged, ambiguous_questions, total_score) ==
  LET a == ambiguous_questions >= sidebar.flagging_threshold
      l == total_score <= sidebar.low_score_flag_threshold
  IN  /\ (flagged # NoFlag) <=> (a \/ l)
      /\ a => flagged = [kind |-> "ambiguous marks", n |-> ambiguous_questions]
      /\ (~a /\ l) => flagged = [kind |-> "Low total score", n |-> total_score]

C9_FlaggedIffThreshold ==
  /\ \A k \in 1..Len(db) :
       Flagging(db[k].flagged, db[k].ambiguous_questions, db[k].total_score)
  /\ \A s \in Sessions : \A k \in 1..Len(results_records[s]) :
       LET res == results_records[s][k][1]
       IN  Flagging(res.flagged, res.ambiguous_questions, res.total_score)

C9_Witness ==
  \E k \in 1..Len(db) :
    /\ db[k].ambiguous_questions >= sidebar.flagging_threshold
    /\ db[k].total_score <= sidebar.low_score_flag_threshold
    /\ db[k].flagged.kind = "ambiguous marks"

\* C10: when evaluate_sheet raises for a file, process_single_image still gets
\* a result for it from a fallback evaluation, so the file is saved and logged
\* like any other.
C10_RaisedFileStillLogged ==
  \A c \in eval_calls :
    (c.attempt = 1 /\ c.raised /\ FileOver(c.session, c.file))
    => /\ RowsOf(c.file) # {}
       /\ \E o \in omr_outputs : o.path = <<c.file, ".json">>

\* The batch loop showed "Failed processing" for the file i of session s.
Failed(s, i) ==
  [session |-> s, file |-> fname(s, i), kind |-> "Failed processing"] \in notices

\* process_single_image was entered for the file i of session s.
Processed(s, i) == \E w \in warp_calls : w.file = fname(s, i)

\* A step that moves a session's loop moves it from one file to the next
\* file of the queue, and enters process_single_image for that file.
NextInQueue ==
  \A s \in Sessions :
    idx'[s] # idx[s]
    => /\ pc[s] = "loop"
       /\ idx'[s] = idx[s] + 1
       /\ idx'[s] <= total[s]
       /\ files_to_process(s)[idx[s] + 1] = fname(s, idx[s] + 1)
       /\ ~Processed(s, idx[s] + 1)
       /\ \E w \in warp_calls' : w.file = fname(s, idx'[s])

\* The rows of session s come in the order of its queue, one at most a file.
RowsInQueueOrder(s) ==
  \A j, k \in 1..Len(db) :
    (j < k /\ db[j].filename[1] = s /\ db[k].filename[1] = s)
    => db[j].filename[2] < db[k].filename[2]

\* C11: in a batch run every queued file is processed exactly once and in
\* queue order; a file whose processing raised does not keep the files after
\* it from being processed; and the loop reaches the end of the queue.
C11_EveryFileOnceInOrder ==
  /\ [][NextInQueue]_vars
  /\ [](\A s \in Sessions :
          /\ RowsInQueueOrder(s)
          /\ pc[s] = "done"
             => /\ idx[s] = total[s]
                /\ \A i \in 1..total[s] : Processed(s, i))
  /\ \A s \in Sessions :
       \A i \in 1..MaxQueue :
         (Failed(s, i) /\ i < total[s]) ~> Processed(s, i + 1)
  /\ \A s \in Sessions : (pc[s] = "loop") ~> (pc[s] = "done")

C11_Witness ==
  \E s \in Sessions :
    /\ pc[s] = "done"
    /\ total[s] = MaxQueue
    /\ Failed(s, 1)
    /\ RowsOf(fname(s, 1)) = {}
    /\ RowsOf(fname(s, total[s])) # {}

\* The rows the audit log holds for the files of session s.
RowsOfSession(s) == {k \in 1..Len(db) : db[k].filename[1] = s}

JsonWritten(f) == \E o \in omr_outputs : o.path = <<f, ".json">>

\* C12: once a batch run has reported "Completed evaluation for N files" the
\* audit log holds exactly N rows of that run, one for each queued file; and
\* for every file the run is through with, its JSON result file is written
\* if and only if its audit row is inserted.
C12_CompletedMeansLogged ==
  \A s \in Sessions :
    /\ pc[s] = "done"
       => /\ Cardinality(RowsOfSession(s)) = total[s]
          /\ \A i \in 1..total[s] : Cardinality(RowsOf(fname(s, i))) = 1
    /\ \A i \in 1..idx[s] :
         FileOver(s, fname(s, i))
         => (JsonWritten(fname(s, i)) <=> RowsOf(fname(s, i)) # {})

\* The rectified image saved for the file f.
SavedRectified(f) == {o \in omr_outputs : o.path = <<f, "_rectified.png">>}

\* C13: find_and_warp_sheet and evaluate_sheet leave the image and the answer
\* key they are given as they were (the overlay is drawn on a copy), and the
\* rectified image saved for a file is the rectifier's output for that file,
\* pixel for pixel, with nothing drawn on it.
C13_ArgumentsUntouched ==
  /\ \A w \in warp_calls :
       w.got.kind = "image" => w.got.image_bgr = w.image_bgr
  /\ \A c \in Returned :
       /\ c.left.warped_bgr = c.warped_bgr
       /\ c.left.answer_key = KeyOf(c)
  /\ \A w \in warp_calls :
       \A o \in SavedRectified(w.file) :
         w.got.kind = "image"
         => /\ cvtColor(o.content) = w.got.img
            /\ o.content.text = <<>>

C13_Witness ==
  \E w \in warp_calls :
    /\ w.got.kind = "image"
    /\ SavedRectified(w.file) # {}
    /\ \E c \in Returned :
         /\ c.file = w.file
         /\ c.results.visual_result.text # <<>>
         /\ \E o \in omr_outputs :
              /\ o.path = <<w.file, "_overlay.png">>
              /\ o.content.text # <<>>
====
